---- MODULE Spec2Model ----
(***************************************************************************)
(* The Sybil crawler node of magneticod (magneticod/dht.py): the UDP       *)
(* endpoint with its routing table, neighbour cap, peers table, complete   *)
(* set and metadata queue, driven by datagrams, ticks, the growth loop,    *)
(* send errors and the done-callbacks of the peer sessions.                *)
(*                                                                         *)
(* Byte strings.  A 20-byte identifier (node id, info-hash) is held as a   *)
(* sequence of four 5-byte words, so that the slices [:15] and [:5] fall   *)
(* on word boundaries and are computed exactly.  A compact node record is  *)
(* id (4 words) ++ ip (4 bytes) ++ port (2 bytes, big-endian).             *)
(***************************************************************************)
EXTENDS Integers, Sequences, FiniteSets, TLC

VARIABLES
    true_id,            \* self.__true_id
    token_secret,       \* self.__token_secret
    routing_table,      \* self._routing_table, a dict: entries with unique ids
    n_max_neighbours,   \* self.__n_max_neighbours
    peers,              \* self.__peers, defaultdict(list): info-hash -> sessions
    complete,           \* self._complete_info_hashes
    metadata_q,         \* self._metadata_q
    ready,              \* done-callbacks scheduled on the loop, FIFO
    transport_open,     \* self._transport not yet closed
    out,                \* the transport.sendto calls of the last step
    last                \* the handler that ran last, with its input

vars == << true_id, token_secret, routing_table, n_max_neighbours, peers,
           complete, metadata_q, ready, transport_open, out, last >>

----------------------------------------------------------------------------
(* Program constants *)

MAX_ACTIVE_PEERS_PER_INFO_HASH == 5

InitialMaxNeighbours == 2000

CongestionFloor == 200

WordBytes == 5

IdBytes == 20

CompactNodeBytes == 26

HostName(s) == [kind |-> "dns", name |-> s, quad |-> << >>]

DottedQuad(b) == [kind |-> "ipv4", name |-> "", quad |-> b]

BOOTSTRAPPING_NODES ==
    << [host |-> HostName("router.bittorrent.com"), port |-> 6881],
       [host |-> HostName("dht.transmissionbt.com"), port |-> 6881] >>

----------------------------------------------------------------------------
(* Bounds of the explored inputs *)

\* sessions spawned in one run for the single info-hash of the fan-out
\* specification
MaxSessions == 6

\* sessions spawned in one run of the peers specification, over all
\* info-hashes
PeersSessions == 4

\* done-callbacks that may be waiting on the loop at the same time
MaxReady == 2

\* sessions spawned in one run of the wire specification
WireSessions == 2

\* the growth loop is explored while the cap stays at or below this value
MaxCapRouting == 220

\* number of compact node records in the large find_node response
BigBatch == 200

\* the growth loop is explored while the cap is below this value
MaxCap == 2000

\* the values of the cap before a burst of congestion errors that are
\* followed up are MaxCap and the multiples of CapGrid
CapGrid == 100

----------------------------------------------------------------------------
(* Byte-string helpers *)

\* len(x) of a word-held byte string
ByteLen(x) == WordBytes * Len(x)

\* x[:15]
Prefix15(x) == SubSeq(x, 1, IF Len(x) < 3 THEN Len(x) ELSE 3)

\* x[:5]
Prefix5(x) == SubSeq(x, 1, IF Len(x) < 1 THEN Len(x) ELSE 1)

\* X[:15] + self.__true_id[:5]
ForgeWrongSlice(x, tid) == Prefix15(x) \o SubSeq(tid, 4, 4)
Forge(x, tid) == Prefix15(x) \o Prefix5(tid)

\* socket.inet_ntoa
inet_ntoa(b) == DottedQuad(b)

\* int.from_bytes(b, "big") of a 2-byte string
int_from_bytes(b) == b[1] * 256 + b[2]

\* zlib.adler32 over secret, inet_aton(host), port, info_hash: kept symbolic
calculate_token(secret, addr, info_hash) ==
    << secret, addr.host.quad, addr.port, info_hash >>

----------------------------------------------------------------------------
(* Datagrams as bencode.loads sees them.  A field of a KRPC mapping is a   *)
(* typed value: absent, a byte string (b), an integer (n) or some other    *)
(* bencode value.                                                          *)

Absent == [ty |-> "absent", b |-> << >>, n |-> 0]

BencBytes(x) == [ty |-> "bytes", b |-> x, n |-> 0]

BencInt(k) == [ty |-> "int", b |-> << >>, n |-> k]

OtherValue == [ty |-> "list", b |-> << >>, n |-> 0]

\* the r.nodes field: recs are the whole 26-byte records, extra the bytes
\* left over after the last whole record
NoNodes == [ty |-> "absent", recs |-> << >>, extra |-> 0]

NodesBlob(recs, extra) == [ty |-> "bytes", recs |-> recs, extra |-> extra]

CompactNode(id, ip, port) == [id |-> id, ip |-> ip, port |-> port]

\* enc: "bad" (not bencode), "nondict" (bencode, not a mapping), "dict"
\* r, a: "absent", "dict" or "other"
EmptyMessage ==
    [enc |-> "dict", r |-> "absent", nodes |-> NoNodes, q |-> "absent",
     t |-> Absent, a |-> "absent", id |-> Absent, info_hash |-> Absent,
     token |-> Absent, port |-> Absent, implied_port |-> Absent]

Undecodable == [EmptyMessage EXCEPT !.enc = "bad"]

NotAMapping == [EmptyMessage EXCEPT !.enc = "nondict"]

FindNodeResponse(nodes) ==
    [EmptyMessage EXCEPT !.r = "dict", !.nodes = nodes, !.t = BencBytes(<<97, 97>>)]

GetPeersQuery(t, info_hash) ==
    [EmptyMessage EXCEPT !.q = "get_peers", !.t = t, !.a = "dict",
                         !.info_hash = info_hash]

AnnouncePeerQuery(t, id, info_hash, token, port, implied_port) ==
    [EmptyMessage EXCEPT !.q = "announce_peer", !.t = t, !.a = "dict",
                         !.id = id, !.info_hash = info_hash, !.token = token,
                         !.port = port, !.implied_port = implied_port]

NoAddress == [host |-> HostName(""), port |-> 0]

----------------------------------------------------------------------------
(* Outbound datagrams: what is passed to transport.sendto *)

\* __build_FIND_NODE_query(id_); the fresh random target is not kept
build_FIND_NODE_query(id_) ==
    [y |-> "q", q |-> "find_node", t |-> <<97, 97>>, id |-> id_,
     token |-> << >>]

\* the reply of __on_GET_PEERS_query
GetPeersReply(t, id_, token) ==
    [y |-> "r", q |-> "get_peers", t |-> t, id |-> id_, token |-> token]

\* the reply of __on_ANNOUNCE_PEER_query
AnnouncePeerReply(t, id_) ==
    [y |-> "r", q |-> "announce_peer", t |-> t, id |-> id_, token |-> << >>]

\* one call transport.sendto(data, addr); by names the statement that made
\* the call and, for a call made in a loop, the item the loop was at
SendTo(data, addr, stmt, item) ==
    [data |-> data, addr |-> addr, by |-> [stmt |-> stmt, item |-> item]]

----------------------------------------------------------------------------
(* Peer sessions.  A session is the coroutine returned by                  *)
(* bittorrent.get_torrent_data together with the task that runs it:        *)
(* task = "pending" (running), "result" / "noresult" (finished, its        *)
(* done-callback waiting on the loop), "called" (metadata_found has run).  *)

NewSession(info_hash, peer_addr) ==
    [info_hash |-> info_hash, addr |-> peer_addr, closed |-> FALSE,
     task |-> "pending"]

\* peer.close(): a session closed from outside delivers no result later;
\* the result of a task that has already finished is not touched
Close(s) == [s EXCEPT !.closed = TRUE]

\* lines 193-194: for peer in self.__peers[info_hash]: peer.close()
CloseAllButLast(ss) ==
    [i \in 1..Len(ss) |-> IF i < Len(ss) THEN Close(ss[i]) ELSE ss[i]]
CloseAll(ss) == [i \in 1..Len(ss) |-> Close(ss[i])]

\* the metadata a session of info_hash returns (its SHA-1 is info_hash)
Metadata(info_hash) == << "info", info_hash >>

\* the number of sessions in the peers table f over the info-hashes S
RECURSIVE SumLen(_, _)
SumLen(f, S) ==
    IF S = {} THEN 0
    ELSE LET h == CHOOSE x \in S : TRUE IN Len(f[h]) + SumLen(f, S \ {h})

----------------------------------------------------------------------------
(* The handlers of SybilNode *)

\* __decode_nodes: (id, (inet_ntoa(ip), int.from_bytes(port))) per record
decode_nodes(recs) ==
    [i \in 1..Len(recs) |->
        [id |-> recs[i].id,
         addr |-> [host |-> inet_ntoa(recs[i].ip),
                   port |-> int_from_bytes(recs[i].port)]]]

\* dict.update keeping, for a repeated key, the first pair of the list
DictUpdateFirstWins(d, kvs) ==
    LET keys == { kvs[j].id : j \in 1..Len(kvs) }
        firsts == { j \in 1..Len(kvs) :
                      \A k \in 1..(j - 1) : kvs[k].id # kvs[j].id }
    IN  { e \in d : e.id \notin keys } \cup { kvs[j] : j \in firsts }

\* dict.update(list of pairs): for every key of the list the dict holds the
\* value of the key's last pair, the other keys keep their value.  (When no
\* key is repeated in the list every pair is the last of its key.)
DictUpdate(d, kvs) ==
    LET keys == { kvs[j].id : j \in 1..Len(kvs) }
        lasts == IF Cardinality(keys) = Len(kvs) THEN 1..Len(kvs)
                 ELSE { j \in 1..Len(kvs) :
                          \A k \in (j + 1)..Len(kvs) : kvs[k].id # kvs[j].id }
    IN  { e \in d : e.id \notin keys } \cup { kvs[j] : j \in lasts }

\* line 111: type(nodes_arg) is bytes and len(nodes_arg) % 26 == 0
NodesWellFormed(nodes) ==
    /\ nodes.ty = "bytes"
    /\ (CompactNodeBytes * Len(nodes.recs) + nodes.extra) % CompactNodeBytes = 0

\* line 121: len(self._routing_table) < self.__n_max_neighbours
HasRoomNoCheck(table, cap) == TRUE
HasRoom(table, cap) == Cardinality(table) < cap

\* __on_FIND_NODE_response: the routing table afterwards
on_FIND_NODE_response(message, table, cap) ==
    IF ~ NodesWellFormed(message.nodes) THEN table
    ELSE IF HasRoom(table, cap)
         THEN DictUpdate(table, decode_nodes(message.nodes.recs))
         ELSE table

\* lines 126-129 of __on_GET_PEERS_query
GetPeersValid(message) ==
    /\ message.t.ty = "bytes" /\ message.t.b # << >>
    /\ message.a = "dict"
    /\ message.info_hash.ty = "bytes"
    /\ ByteLen(message.info_hash.b) = IdBytes

\* __on_GET_PEERS_query: the datagrams sent
on_GET_PEERS_query(message, addr, tid, secret) ==
    IF ~ GetPeersValid(message) THEN {}
    ELSE { SendTo(GetPeersReply(message.t.b,
                                Forge(message.info_hash.b, tid),
                                calculate_token(secret, addr,
                                                message.info_hash.b)),
                  addr, "get_peers", << >>) }

\* lines 148-163 of __on_ANNOUNCE_PEER_query
AnnouncePeerValidAnyPort(message) ==
    /\ message.a = "dict"
    /\ message.id.ty = "bytes" /\ ByteLen(message.id.b) = IdBytes
    /\ message.t.ty = "bytes" /\ message.t.b # << >>
    /\ message.token.ty = "bytes"
    /\ message.info_hash.ty = "bytes"
    /\ ByteLen(message.info_hash.b) = IdBytes
    /\ message.implied_port.ty # "absent" =>
          /\ message.implied_port.ty = "int"
          /\ message.implied_port.n \in {0, 1}
    /\ message.port.ty = "int"
AnnouncePeerValid(message) ==
    /\ message.a = "dict"
    /\ message.id.ty = "bytes" /\ ByteLen(message.id.b) = IdBytes
    /\ message.t.ty = "bytes" /\ message.t.b # << >>
    /\ message.token.ty = "bytes"
    /\ message.info_hash.ty = "bytes"
    /\ ByteLen(message.info_hash.b) = IdBytes
    /\ message.implied_port.ty # "absent" =>
          /\ message.implied_port.ty = "int"
          /\ message.implied_port.n \in {0, 1}
    /\ message.port.ty = "int"
    /\ 0 < message.port.n /\ message.port.n < 65536

\* lines 176-179: the address the session is pointed at
PeerAddrIgnoreImplied(message, addr) ==
    [host |-> addr.host, port |-> message.port.n]
PeerAddr(message, addr) ==
    IF message.implied_port.ty = "int" /\ message.implied_port.n # 0
    THEN [host |-> addr.host, port |-> addr.port]
    ELSE [host |-> addr.host, port |-> message.port.n]

\* lines 181-183: the announce is dropped without a session
SpawnRefusedIgnoreComplete(sessions, info_hash, done) ==
    Len(sessions) > MAX_ACTIVE_PEERS_PER_INFO_HASH
SpawnRefused(sessions, info_hash, done) ==
    \/ Len(sessions) > MAX_ACTIVE_PEERS_PER_INFO_HASH
    \/ info_hash \in done

\* lines 167-174 of __on_ANNOUNCE_PEER_query: the datagrams sent
AnnounceReplyToPeerAddr(message, addr, tid) ==
    { SendTo(AnnouncePeerReply(message.t.b, Forge(message.id.b, tid)),
             PeerAddr(message, addr), "announce_peer", << >>) }
AnnounceReply(message, addr, tid) ==
    { SendTo(AnnouncePeerReply(message.t.b, Forge(message.id.b, tid)), addr,
             "announce_peer", << >>) }

\* lines 181-187 of __on_ANNOUNCE_PEER_query: the peers table afterwards
AnnounceSpawn(message, addr, table, done) ==
    LET info_hash == message.info_hash.b
    IN  IF SpawnRefused(table[info_hash], info_hash, done) THEN table
        ELSE [table EXCEPT ![info_hash] =
                  Append(@, NewSession(info_hash, PeerAddr(message, addr)))]

\* line 91: isinstance(message.get(b"r"), dict) and
\*          type(message[b"r"].get(b"nodes")) is bytes
IsResponse(message) == message.r = "dict" /\ message.nodes.ty = "bytes"

\* line 83: datagrams from port 0 are ignored
FromPortZero(addr) == addr.port = 0

\* datagram_received: the handler that gets the message, "" when none does
\* (bencode.loads fails, or the decoded value has no get() and the call at
\* line 91 raises before any handler runs)
Dispatch(data, addr) ==
    IF FromPortZero(addr) THEN ""
    ELSE IF data.enc # "dict" THEN ""
    ELSE IF IsResponse(data) THEN "find_node_response"
    ELSE IF data.q = "get_peers" THEN "get_peers"
    ELSE IF data.q = "announce_peer" THEN "announce_peer"
    ELSE ""

----------------------------------------------------------------------------
(* The inputs explored *)

\* os.urandom(20) at construction: one id whose last five bytes repeat its
\* first five, one where they differ
TrueIds == { <<7, 7, 7, 7>>, <<1, 2, 3, 4>> }

Secrets == { <<9, 9, 9, 9>> }

NodeA == <<17, 17, 17, 17>>

NodeB == <<34, 34, 34, 34>>

\* a node id sharing the first 15 bytes of the true id <<7, 7, 7, 7>>
NodeNear == <<7, 7, 7, 9>>

H1 == <<51, 51, 51, 51>>

H2 == <<68, 68, 68, 68>>

InfoHashes == {H1, H2}

Remote == [host |-> DottedQuad(<<10, 0, 0, 1>>), port |-> 40000]

RemotePortZero == [host |-> DottedQuad(<<10, 0, 0, 2>>), port |-> 0]

\* port 6881 and 6882, big-endian
RecA == CompactNode(NodeA, <<1, 2, 3, 4>>, <<26, 225>>)

RecB == CompactNode(NodeB, <<5, 6, 7, 8>>, <<26, 226>>)

\* the same node id as RecA at another address
RecA2 == CompactNode(NodeA, <<1, 2, 3, 9>>, <<26, 227>>)

\* a record whose port field decodes to 0
RecZero == CompactNode(NodeNear, <<9, 9, 9, 9>>, <<0, 0>>)

BigRecs ==
    [i \in 1..BigBatch |->
        CompactNode(<<0, 0, i, 0>>, <<10, 1, i \div 256, i % 256>>, <<26, 225>>)]

T == BencBytes(<<97, 97>>)

Token == BencBytes(<<1>>)

ResponseAB == FindNodeResponse(NodesBlob(<<RecA, RecB>>, 0))

\* a response that names the node id of RecA twice
ResponseRepeated == FindNodeResponse(NodesBlob(<<RecZero, RecA2, RecA>>, 0))

SmallResponses ==
    { ResponseAB,
      ResponseRepeated,
      FindNodeResponse(NodesBlob(<<RecA2>>, 13)) }

BigResponses == { FindNodeResponse(NodesBlob(BigRecs, 0)) }

GetPeersQueries ==
    { GetPeersQuery(T, BencBytes(H1)),
      GetPeersQuery(T, BencBytes(NodeNear)),
      GetPeersQuery(T, BencBytes(<<51, 51, 51>>)),
      GetPeersQuery(BencBytes(<< >>), BencBytes(H1)),
      GetPeersQuery(OtherValue, BencBytes(H1)) }

Announce(id, h, implied_port) ==
    AnnouncePeerQuery(T, BencBytes(id), BencBytes(h), Token, BencInt(12345),
                      implied_port)

Announces ==
    { Announce(id, h, ip) : id \in {NodeA, NodeNear}, h \in InfoHashes,
                            ip \in {Absent, BencInt(0), BencInt(1)} }

\* an announce whose token is not one calculate_token gives
ForgedTokenAnnounces ==
    { AnnouncePeerQuery(T, BencBytes(NodeB), BencBytes(H1), BencBytes(<< >>),
                        BencInt(12345), Absent) }

PlainAnnounces == { Announce(NodeA, h, Absent) : h \in InfoHashes }

BadAnnounces ==
    { AnnouncePeerQuery(T, BencBytes(NodeA), BencBytes(H1), Token,
                        BencInt(0), Absent),
      AnnouncePeerQuery(T, BencBytes(NodeA), BencBytes(H1), Token,
                        BencInt(12345), BencInt(2)),
      AnnouncePeerQuery(T, BencBytes(NodeA), BencBytes(H1), OtherValue,
                        BencInt(12345), Absent),
      AnnouncePeerQuery(T, BencBytes(<<17, 17, 17>>), BencBytes(H1), Token,
                        BencInt(12345), Absent),
      AnnouncePeerQuery(T, BencBytes(NodeA), BencBytes(<<51, 51, 51>>), Token,
                        BencInt(12345), Absent),
      AnnouncePeerQuery(BencBytes(<< >>), BencBytes(NodeA), BencBytes(H1),
                        Token, BencInt(12345), Absent),
      AnnouncePeerQuery(OtherValue, BencBytes(NodeA), BencBytes(H1), Token,
                        BencInt(12345), Absent),
      AnnouncePeerQuery(T, BencBytes(NodeA), BencBytes(H1), Token,
                        BencInt(65536), Absent),
      AnnouncePeerQuery(T, BencBytes(NodeA), BencBytes(H1), Token,
                        BencBytes(<<49>>), Absent) }

OtherDatagrams ==
    { Undecodable, NotAMapping, [EmptyMessage EXCEPT !.q = "ping"] }

Exceptions == {"PermissionError", "OSError"}

----------------------------------------------------------------------------
(* Initial state: SybilNode.__init__ and connection_made *)

NoLast ==
    [op |-> "init", data |-> EmptyMessage, addr |-> NoAddress,
     table |-> {}, exc |-> "", h |-> << >>, i |-> 0, r |-> ""]

\* the node constructed with true id tid and the embedder's set done
Constructed(tid, done) ==
    /\ true_id = tid
    /\ token_secret \in Secrets
    /\ routing_table = {}
    /\ n_max_neighbours = InitialMaxNeighbours
    /\ peers = [h \in InfoHashes |-> << >>]
    /\ complete = done
    /\ metadata_q = << >>
    /\ ready = << >>
    /\ transport_open = TRUE
    /\ out = {}
    /\ last = NoLast

Init == \E tid \in TrueIds, done \in SUBSET InfoHashes : Constructed(tid, done)

----------------------------------------------------------------------------
(* Actions *)

\* __bootstrap: one call per bootstrap address
bootstrapForged(tid) ==
    { SendTo(build_FIND_NODE_query(Forge(tid, tid)), BOOTSTRAPPING_NODES[i],
             "bootstrap", <<i>>) : i \in 1..Len(BOOTSTRAPPING_NODES) }
bootstrap(tid) ==
    { SendTo(build_FIND_NODE_query(tid), BOOTSTRAPPING_NODES[i],
             "bootstrap", <<i>>) : i \in 1..Len(BOOTSTRAPPING_NODES) }

\* __make_neighbours: one call per item of the routing table
make_neighboursSkipsOne(table, tid) ==
    { SendTo(build_FIND_NODE_query(Forge(e.id, tid)), e.addr,
             "make_neighbours", e.id) :
        e \in IF table = {} THEN {} ELSE table \ {CHOOSE e \in table : TRUE} }
make_neighbours(table, tid) ==
    { SendTo(build_FIND_NODE_query(Forge(e.id, tid)), e.addr,
             "make_neighbours", e.id) : e \in table }

\* line 79: self._routing_table.clear()
ClearedKeepsOne(table) == IF table = {} THEN {} ELSE {CHOOSE e \in table : TRUE}
Cleared(table) == {}

\* one round of on_tick: bootstrap, neighbour refresh, clear
on_tick ==
    /\ transport_open
    /\ out' = bootstrap(true_id) \cup make_neighbours(routing_table, true_id)
    /\ routing_table' = Cleared(routing_table)
    /\ last' = [NoLast EXCEPT !.op = "tick", !.table = routing_table]
    /\ UNCHANGED << true_id, token_secret, n_max_neighbours, peers, complete,
                    metadata_q, ready, transport_open >>

\* datagram_received(data, addr), explored while no more than maxSessions
\* sessions have been spawned
datagram_received(data, addr, maxSessions) ==
    /\ transport_open
    /\ LET handler == Dispatch(data, addr)
       IN  /\ routing_table' =
                 IF handler = "find_node_response"
                 THEN on_FIND_NODE_response(data, routing_table,
                                            n_max_neighbours)
                 ELSE routing_table
           /\ out' =
                 IF handler = "get_peers"
                 THEN on_GET_PEERS_query(data, addr, true_id, token_secret)
                 ELSE IF handler = "announce_peer" /\ AnnouncePeerValid(data)
                 THEN AnnounceReply(data, addr, true_id)
                 ELSE {}
           /\ peers' =
                 IF handler = "announce_peer" /\ AnnouncePeerValid(data)
                 THEN AnnounceSpawn(data, addr, peers, complete)
                 ELSE peers
    /\ SumLen(peers', DOMAIN peers') <= maxSessions
    /\ last' = [NoLast EXCEPT !.op = "datagram", !.data = data, !.addr = addr]
    /\ UNCHANGED << true_id, token_secret, n_max_neighbours, complete,
                    metadata_q, ready, transport_open >>

\* lines 66-72 of error_received: the neighbour cap afterwards
ShrunkNoFloor(cap, exc) ==
    IF exc = "PermissionError" THEN (cap * 9) \div 10 ELSE cap
Shrunk(cap, exc) ==
    IF exc = "PermissionError"
    THEN IF cap < CongestionFloor THEN cap ELSE (cap * 9) \div 10
    ELSE cap

\* error_received(exc)
error_receivedFloorOnResult(exc) ==
    /\ transport_open
    /\ n_max_neighbours' =
          IF exc = "PermissionError"
                /\ (n_max_neighbours * 9) \div 10 >= CongestionFloor \div 2
          THEN (n_max_neighbours * 9) \div 10
          ELSE n_max_neighbours
    /\ out' = {}
    /\ last' = [NoLast EXCEPT !.op = "error", !.exc = exc]
    /\ UNCHANGED << true_id, token_secret, routing_table, peers, complete,
                    metadata_q, ready, transport_open >>
error_received(exc) ==
    /\ transport_open
    /\ n_max_neighbours' = Shrunk(n_max_neighbours, exc)
    /\ out' = {}
    /\ last' = [NoLast EXCEPT !.op = "error", !.exc = exc]
    /\ UNCHANGED << true_id, token_secret, routing_table, peers, complete,
                    metadata_q, ready, transport_open >>

\* line 101: the neighbour cap after one round of the growth loop
GrownRoundedToTen(cap) == 10 * ((cap * 101) \div 1000)
Grown(cap) == (cap * 101) \div 100

\* one round of increase_neighbour_task, explored while the cap is below
\* maxCap
increase_neighbour_task(maxCap) ==
    /\ n_max_neighbours < maxCap
    /\ n_max_neighbours' = Grown(n_max_neighbours)
    /\ out' = {}
    /\ last' = [NoLast EXCEPT !.op = "grow"]
    /\ UNCHANGED << true_id, token_secret, routing_table, peers, complete,
                    metadata_q, ready, transport_open >>

\* shutdown
shutdownTransportOnly ==
    /\ transport_open
    /\ transport_open' = FALSE
    /\ out' = {}
    /\ last' = [NoLast EXCEPT !.op = "shutdown"]
    /\ UNCHANGED << true_id, token_secret, routing_table, n_max_neighbours,
                    peers, complete, metadata_q, ready >>
shutdown ==
    /\ transport_open
    /\ peers' = [h \in DOMAIN peers |-> CloseAll(peers[h])]
    /\ transport_open' = FALSE
    /\ out' = {}
    /\ last' = [NoLast EXCEPT !.op = "shutdown"]
    /\ UNCHANGED << true_id, token_secret, routing_table, n_max_neighbours,
                    complete, metadata_q, ready >>

\* the task of session i of info-hash h finishes with or without a result
\* and its done-callback is scheduled (line 187)
task_done(h, i, r) ==
    /\ i \in 1..Len(peers[h])
    /\ peers[h][i].task = "pending"
    /\ peers[h][i].closed => r = "noresult"
    /\ Len(ready) < MaxReady
    /\ peers' = [peers EXCEPT ![h][i].task = r]
    /\ ready' = Append(ready, <<h, i>>)
    /\ out' = {}
    /\ last' = [NoLast EXCEPT !.op = "task_done", !.h = h, !.i = i, !.r = r]
    /\ UNCHANGED << true_id, token_secret, routing_table, n_max_neighbours,
                    complete, metadata_q, transport_open >>

\* line 190: r = future.result(); a task that ended without a result gives
\* nothing to enqueue
Result(s) ==
    IF s.task = "result" THEN << s.info_hash, Metadata(s.info_hash) >>
    ELSE << >>

\* line 195: self._metadata_q.put_nowait(r) on the asyncio.Queue of line 51
put_nowaitAtHead(q, item) == <<item>> \o q
put_nowait(q, item) == Append(q, item)

\* metadata_found(future), for the callback at the head of the loop's queue
metadata_found ==
    /\ ready # << >>
    /\ LET h == Head(ready)[1]
           i == Head(ready)[2]
           r == Result(peers[h][i])
       IN  /\ IF r # << >>
              THEN /\ peers' = [peers EXCEPT
                                  ![r[1]] = [CloseAll(@) EXCEPT ![i].task = "called"]]
                   /\ metadata_q' = put_nowait(metadata_q, r)
                   /\ complete' = complete \cup {r[1]}
              ELSE /\ peers' = [peers EXCEPT ![h][i].task = "called"]
                   /\ UNCHANGED << metadata_q, complete >>
           /\ last' = [NoLast EXCEPT !.op = "metadata_found", !.h = h,
                                     !.i = i, !.r = peers[h][i].task]
    /\ ready' = Tail(ready)
    /\ out' = {}
    /\ UNCHANGED << true_id, token_secret, routing_table, n_max_neighbours,
                    transport_open >>

----------------------------------------------------------------------------
(* Specifications.  All of them run the same handlers from the same        *)
(* initial states; they differ in the inputs fed to the node.              *)

Remotes == {Remote, RemotePortZero}

\* the wire: every kind of datagram, and the tick
WireDatagrams ==
    SmallResponses \cup GetPeersQueries \cup Announces \cup BadAnnounces
        \cup ForgedTokenAnnounces \cup OtherDatagrams

NextWire ==
    \/ on_tick
    \/ \E data \in WireDatagrams, addr \in Remotes :
          datagram_received(data, addr, WireSessions)

SpecWire == Init /\ [][NextWire]_vars

\* the routing table and the neighbour cap
InitRouting == \E tid \in TrueIds : Constructed(tid, {})

NextRouting ==
    \/ \E data \in {ResponseAB, ResponseRepeated} \cup BigResponses :
          datagram_received(data, Remote, 0)
    \/ on_tick
    \/ \E exc \in Exceptions : error_received(exc)
    \/ increase_neighbour_task(MaxCapRouting)

SpecRouting == InitRouting /\ [][NextRouting]_vars

\* the peer sessions of two announced info-hashes
InitPeers == \E done \in {{}, {H2}} : Constructed(<<1, 2, 3, 4>>, done)

NextPeers ==
    \/ \E data \in PlainAnnounces :
          datagram_received(data, Remote, PeersSessions)
    \/ \E h \in InfoHashes, i \in 1..PeersSessions,
          r \in {"result", "noresult"} : task_done(h, i, r)
    \/ metadata_found
    \/ shutdown

SpecPeers == InitPeers /\ [][NextPeers]_vars

\* the fan-out of one info-hash, up to and beyond the limit
InitFanout == Constructed(<<1, 2, 3, 4>>, {})

NextFanout ==
    \/ datagram_received(Announce(NodeA, H1, Absent), Remote, MaxSessions)
    \/ \E i \in 1..MaxSessions, r \in {"result", "noresult"} :
          task_done(H1, i, r)
    \/ metadata_found

SpecFanout == InitFanout /\ [][NextFanout]_vars

\* the neighbour cap alone: congestion and other send errors, and the
\* growth loop, which connection_made starts and nothing ever cancels
InitCap == Constructed(<<1, 2, 3, 4>>, {})

NextCap ==
    \/ \E exc \in Exceptions : error_received(exc)
    \/ increase_neighbour_task(MaxCap)

SpecCap == InitCap /\ [][NextCap]_vars

\* the growth loop sleeps 10 seconds and runs again, for ever
SpecCapFair == SpecCap /\ WF_vars(increase_neighbour_task(MaxCap))

----------------------------------------------------------------------------
(* Properties *)

\* the sessions of info-hash h that were spawned and have not ended
Live(h) ==
    { i \in 1..Len(peers[h]) :
        peers[h][i].task = "pending" /\ ~ peers[h][i].closed }

\* the pairs of info-hash h on the metadata queue
Enqueued(h) == { k \in 1..Len(metadata_q) : metadata_q[k][1] = h }

\* the peers table without the state of the sessions' tasks
Table(p) ==
    [h \in DOMAIN p |->
        [i \in 1..Len(p[h]) |->
            << p[h][i].info_hash, p[h][i].addr, p[h][i].closed >>]]

\* C1: for every info-hash, the number of sessions spawned and not yet
\* ended is at most MAX_ACTIVE_PEERS_PER_INFO_HASH, so a sixth announce for
\* an info-hash with five running sessions spawns nothing.
C1_LiveSessionsBounded ==
    \A h \in InfoHashes : Cardinality(Live(h)) <= MAX_ACTIVE_PEERS_PER_INFO_HASH

\* C2: for every info-hash at most one (info-hash, metadata) pair is ever
\* put on the metadata queue, whatever the order of announces, session
\* completions and metadata_found callbacks.
C2_AtMostOneResult ==
    \A h \in InfoHashes : Cardinality(Enqueued(h)) <= 1

\* C3: a metadata_found callback of a session that returned (H, metadata)
\* leaves every session recorded for H closed, appends (H, metadata) to the
\* metadata queue and puts H in the complete set; a callback of a session
\* without a result changes none of the peers table, the queue and the
\* complete set.
C3_MetadataFoundEffect ==
    [][ last'.op = "metadata_found" =>
          IF last'.r = "result"
          THEN /\ \A i \in 1..Len(peers'[last'.h]) : peers'[last'.h][i].closed
               /\ Len(peers'[last'.h]) = Len(peers[last'.h])
               /\ metadata_q' =
                     Append(metadata_q, << last'.h, Metadata(last'.h) >>)
               /\ complete' = complete \cup {last'.h}
          ELSE /\ Table(peers') = Table(peers)
               /\ metadata_q' = metadata_q
               /\ complete' = complete ]_vars

\* a successful callback has closed an info-hash with at least three sessions
C3_Witness ==
    /\ last.op = "metadata_found" /\ last.r = "result"
    /\ Len(peers[last.h]) >= 3
    /\ \E i \in 1..Len(peers[last.h]) : peers[last.h][i].task = "pending"
    /\ metadata_q # << >>

C6_PortZeroNeverUsed ==
    /\ \A s \in out : s.addr.port # 0
    /\ \A h \in InfoHashes : \A i \in 1..Len(peers[h]) :
          peers[h][i].addr.port # 0

\* X[:15] ++ true_id[:5], written out on the four words of X and true_id
SybilId(x) == << x[1], x[2], x[3], true_id[1] >>

IsFindNodeQuery(data) == data.y = "q" /\ data.q = "find_node"

BootstrapAddresses ==
    { BOOTSTRAPPING_NODES[i] : i \in 1..Len(BOOTSTRAPPING_NODES) }

\* C7: a tick sends exactly one find_node query with id = true_id to each
\* bootstrap address and exactly one find_node query with
\* id = node_id[:15] ++ true_id[:5] to the address of every entry the routing
\* table held when the tick ran (hence to every entry the tick removes), and
\* nothing else.
C7_TickEmission ==
    last.op = "tick" =>
        LET boots == { s \in out : s.by.stmt = "bootstrap" }
            neigh == out \ boots
        IN  /\ Cardinality(boots) = Len(BOOTSTRAPPING_NODES)
            /\ \A a \in BootstrapAddresses :
                  Cardinality({ s \in boots : s.addr = a }) = 1
            /\ \A s \in boots :
                  IsFindNodeQuery(s.data) /\ s.data.id = true_id
            /\ Cardinality(neigh) = Cardinality(last.table)
            /\ \A e \in last.table :
                  Cardinality({ s \in neigh :
                      /\ s.by.item = e.id
                      /\ s.addr = e.addr
                      /\ IsFindNodeQuery(s.data)
                      /\ s.data.id = SybilId(e.id) }) = 1

\* a tick ran on a table of two or more entries
C7_Witness ==
    /\ last.op = "tick"
    /\ Cardinality(last.table) >= 2
    /\ Cardinality(out) = Len(BOOTSTRAPPING_NODES) + Cardinality(last.table)

\* C8: after a tick the routing table is empty.
C8_EmptyAfterTick == last.op = "tick" => routing_table = {}

\* a tick ran on the table filled by the large response
C8_Witness ==
    /\ last.op = "tick"
    /\ Cardinality(last.table) >= BigBatch
    /\ routing_table = {}

\* C9: the id of every datagram sent is the true id in a bootstrap find_node
\* query, or X[:15] ++ true_id[:5] with X the node id of the routing-table
\* entry queried, the info_hash of the get_peers query answered, or the id of
\* the announcing node.
C9_OutboundIds ==
    \A s \in out :
        \/ /\ s.by.stmt = "bootstrap"
           /\ IsFindNodeQuery(s.data)
           /\ s.addr \in BootstrapAddresses
           /\ s.data.id = true_id
        \/ /\ s.by.stmt = "make_neighbours"
           /\ IsFindNodeQuery(s.data)
           /\ \E e \in last.table :
                 s.addr = e.addr /\ s.data.id = SybilId(e.id)
        \/ /\ s.by.stmt = "get_peers"
           /\ s.data.y = "r"
           /\ last.data.q = "get_peers"
           /\ s.data.id = SybilId(last.data.info_hash.b)
        \/ /\ s.by.stmt = "announce_peer"
           /\ s.data.y = "r"
           /\ last.data.q = "announce_peer"
           /\ s.data.id = SybilId(last.data.id.b)

\* a get_peers query was answered under an id that is not the true id
C9_Witness ==
    /\ last.op = "datagram" /\ last.data.q = "get_peers"
    /\ \E s \in out : s.by.stmt = "get_peers" /\ s.data.id # true_id

\* C10: no datagram the node sends carries the complete true id as its id.
C10_TrueIdNeverSent == \A s \in out : s.data.id # true_id

\* the X whose first 15 bytes make the id of a datagram that is not a
\* bootstrap query
ForgedFrom(s) ==
    IF s.by.stmt = "make_neighbours" THEN s.by.item
    ELSE IF s.by.stmt = "get_peers" THEN last.data.info_hash.b
    ELSE last.data.id.b

\* C10, amended: every bootstrap find_node query carries the complete true
\* id; any other datagram carries it only when the X its id is forged from
\* has the first 15 bytes of the true id and the last five bytes of the true
\* id equal its first five.
C10_TrueIdOnlyInBootstrap ==
    \A s \in out :
        IF s.by.stmt = "bootstrap" THEN s.data.id = true_id
        ELSE s.data.id = true_id =>
                /\ SubSeq(ForgedFrom(s), 1, 3) = SubSeq(true_id, 1, 3)
                /\ true_id[4] = true_id[1]

\* a tick sent the true id to the bootstrap addresses and a forged id, not
\* the true id, to a neighbour
C10_Witness ==
    /\ last.op = "tick"
    /\ \E s \in out : s.by.stmt = "bootstrap" /\ s.data.id = true_id
    /\ \E s \in out : /\ s.by.stmt = "make_neighbours"
                      /\ s.data.id # true_id
                      /\ s.data.id[4] = true_id[1]

\* the sessions recorded for info-hash h have all ended without a result
AllEndedWithoutResult(h) ==
    /\ h \notin complete
    /\ \A i \in 1..Len(peers[h]) :
          peers[h][i].task \in {"noresult", "called"}

\* C11: an ended session does not count toward the fan-out limit: a valid
\* announce_peer for an info-hash that is not in the complete set, arriving
\* after the earlier sessions for it have all ended without a result, spawns
\* a new session however many earlier sessions there were.
C11_EndedSessionsDoNotCount ==
    [][ ( /\ last'.op = "datagram"
          /\ Dispatch(last'.data, last'.addr) = "announce_peer"
          /\ AnnouncePeerValid(last'.data)
          /\ AllEndedWithoutResult(last'.data.info_hash.b) )
        => \E i \in 1..Len(peers'[last'.data.info_hash.b]) :
              /\ peers'[last'.data.info_hash.b][i].task = "pending"
              /\ ~ peers'[last'.data.info_hash.b][i].closed ]_vars

\* a byte string of 20 bytes
IsId(f) == f.ty = "bytes" /\ Len(f.b) * WordBytes = IdBytes

\* a non-empty byte string
IsTransactionId(f) == f.ty = "bytes" /\ Len(f.b) > 0

\* the datagram is undecodable, not a mapping, of no recognised kind, or
\* fails a type or length check on the fields of its kind
Malformed(data) ==
    \/ data.enc # "dict"
    \/ /\ data.r = "dict" /\ data.nodes.ty = "bytes"
       /\ (Len(data.nodes.recs) * CompactNodeBytes + data.nodes.extra)
             % CompactNodeBytes # 0
    \/ /\ ~ (data.r = "dict" /\ data.nodes.ty = "bytes")
       /\ \/ data.q \notin {"get_peers", "announce_peer"}
          \/ ~ IsTransactionId(data.t)
          \/ ~ IsId(data.info_hash)
          \/ /\ data.q = "announce_peer"
             /\ \/ ~ IsId(data.id)
                \/ data.token.ty # "bytes"
                \/ /\ data.implied_port.ty # "absent"
                   /\ ~ (data.implied_port.ty = "int"
                          /\ data.implied_port.n \in {0, 1})
                \/ ~ (data.port.ty = "int" /\ data.port.n \in 1..65535)

AnnounceSpawns ==
    /\ last'.op = "datagram"
    /\ Dispatch(last'.data, last'.addr) = "announce_peer"
    /\ AnnouncePeerValid(last'.data)
    /\ last'.data.info_hash.b \notin complete
    /\ Len(peers[last'.data.info_hash.b]) <= MAX_ACTIVE_PEERS_PER_INFO_HASH

\* C13: the session spawned by a valid announce_peer from
\* (remote_ip, remote_port) with announced port p targets
\* (remote_ip, remote_port) if implied_port is 1 and (remote_ip, p) if
\* implied_port is 0 or absent.
C13_PeerAddress ==
    [][ AnnounceSpawns =>
          LET h == last'.data.info_hash.b
              implied == last'.data.implied_port
          IN  /\ Len(peers'[h]) = Len(peers[h]) + 1
              /\ peers'[h][Len(peers'[h])].addr.host = last'.addr.host
              /\ peers'[h][Len(peers'[h])].addr.port =
                    IF implied.ty = "int" /\ implied.n = 1
                    THEN last'.addr.port
                    ELSE last'.data.port.n ]_vars

\* an announce with implied_port = 1 spawned a session against the sender's
\* port, after an announce of the same info-hash had spawned one against
\* the announced port
C13_Witness ==
    /\ last.op = "datagram" /\ last.data.q = "announce_peer"
    /\ last.data.implied_port = BencInt(1)
    /\ LET ss == peers[last.data.info_hash.b]
       IN  /\ Len(ss) = 2
           /\ ss[1].addr = [host |-> last.addr.host, port |-> last.data.port.n]
           /\ ss[2].addr = last.addr
           /\ ss[2].addr.port # last.data.port.n

\* C14: a permission-denied send error multiplies the neighbour cap by 9/10
\* (integer floor) while the cap is at least 200 and leaves it unchanged
\* once it is below 200; any other send error leaves the cap unchanged; no
\* error changes the routing table, the peers table, the complete set or
\* the metadata queue.
C14_ErrorEffect ==
    [][ last'.op = "error" =>
          /\ n_max_neighbours' =
                IF last'.exc = "PermissionError" /\ n_max_neighbours >= 200
                THEN (9 * n_max_neighbours) \div 10
                ELSE n_max_neighbours
          /\ routing_table' = routing_table
          /\ peers' = peers
          /\ complete' = complete
          /\ metadata_q' = metadata_q ]_vars

\* a permission-denied error on a node with neighbours, with the cap below
\* 200 afterwards
C14_Witness ==
    /\ last.op = "error" /\ last.exc = "PermissionError"
    /\ n_max_neighbours < CongestionFloor
    /\ routing_table # {}

\* the last step was a congestion error
Congested == last.op = "error" /\ last.exc = "PermissionError"

\* the values of the cap before a burst that are followed up
PreBurstCaps ==
    {MaxCap} \cup { v \in CongestionFloor..MaxCap : v % CapGrid = 0 }

\* C15: every run of the growth loop sets the cap to floor(cap * 101 / 100),
\* which in every reachable state is strictly greater than the cap; so
\* after a burst of congestion errors, if no further congestion error
\* occurs, the cap eventually returns to, and stays at or above, the value
\* it had before the burst.
C15_GrowthRecovers ==
    /\ [][ last'.op = "grow" =>
             /\ 100 * n_max_neighbours' <= 101 * n_max_neighbours
             /\ 100 * n_max_neighbours' > 101 * n_max_neighbours - 100 ]_vars
    /\ []((101 * n_max_neighbours) \div 100 > n_max_neighbours)
    /\ \A v \in PreBurstCaps :
          [](n_max_neighbours >= v =>
                ([]<>Congested \/ <>[](n_max_neighbours >= v)))

\* a run of the growth loop has taken the cap, lowered by congestion
\* errors, back to its initial value
C15_Witness ==
    /\ last.op = "grow"
    /\ n_max_neighbours >= InitialMaxNeighbours
    /\ n_max_neighbours < Grown(InitialMaxNeighbours)

\* C16: the metadata queue is first-in-first-out in completion order: the
\* pair of a successful session is put behind the pairs of the sessions
\* whose metadata_found ran before, and no step of the crawler removes or
\* reorders queued items.
C16_QueueFifo ==
    [][ /\ Len(metadata_q') >= Len(metadata_q)
        /\ SubSeq(metadata_q', 1, Len(metadata_q)) = metadata_q
        /\ (last'.op = "metadata_found" /\ last'.r = "result") =>
              /\ Len(metadata_q') = Len(metadata_q) + 1
              /\ metadata_q'[Len(metadata_q')][1] = last'.h
        /\ ~ (last'.op = "metadata_found" /\ last'.r = "result") =>
              metadata_q' = metadata_q ]_vars

\* the callbacks of a successful session of H1 and then of a successful
\* session of H2 have run
C16_Witness ==
    /\ last.op = "metadata_found" /\ last.r = "result" /\ last.h = H2
    /\ Len(metadata_q) = 2
    /\ metadata_q[1][1] = H1
    /\ metadata_q[2][1] = H2

\* C17: shutdown closes every peer session recorded in the peers table,
\* under every info-hash, and the UDP transport, and leaves the metadata
\* queue and the complete set unchanged.
C17_ShutdownEffect ==
    [][ last'.op = "shutdown" =>
          /\ DOMAIN peers' = DOMAIN peers
          /\ \A h \in DOMAIN peers :
                /\ Len(peers'[h]) = Len(peers[h])
                /\ \A i \in 1..Len(peers[h]) :
                      /\ peers'[h][i].closed
                      /\ peers'[h][i].addr = peers[h][i].addr
          /\ ~ transport_open'
          /\ metadata_q' = metadata_q
          /\ complete' = complete ]_vars

\* shutdown ran on a node with sessions under both info-hashes, one of
\* them still running, and metadata on the queue
C17_Witness ==
    /\ last.op = "shutdown"
    /\ \A h \in InfoHashes : peers[h] # << >>
    /\ \E h \in InfoHashes : \E i \in 1..Len(peers[h]) :
          peers[h][i].task = "pending"
    /\ metadata_q # << >>
    /\ complete # {}

\* record j of the nodes field of a response, as an entry of the table
Decoded(data, j) ==
    [id |-> data.nodes.recs[j].id,
     addr |-> [host |-> DottedQuad(data.nodes.recs[j].ip),
               port |-> 256 * data.nodes.recs[j].port[1]
                          + data.nodes.recs[j].port[2]]]

\* the table overridden by every record of the response; for a node id
\* that is repeated the last record wins
Overridden(table, data) ==
    LET n == Len(data.nodes.recs)
        ids == { data.nodes.recs[j].id : j \in 1..n }
    IN  { e \in table : e.id \notin ids }
          \cup { Decoded(data, j) : j \in
                   IF Cardinality(ids) = n THEN 1..n
                   ELSE { j \in 1..n : \A k \in (j + 1)..n :
                            data.nodes.recs[k].id # data.nodes.recs[j].id } }

C18_WitnessAtCap ==
    /\ last.op = "datagram" /\ last.data = ResponseAB
    /\ Cardinality(routing_table) >= n_max_neighbours
    /\ \E e \in routing_table : e.id \notin {NodeA, NodeB}
    /\ \A e \in routing_table : e.id # NodeA

C20_CapFloor ==
    /\ n_max_neighbours \in Nat
    /\ n_max_neighbours >= 180
    /\ (n_max_neighbours * 101) \div 100 # n_max_neighbours

\* a congestion error has taken the cap from 200 to its lowest value
C20_Witness ==
    /\ last.op = "error" /\ last.exc = "PermissionError"
    /\ n_max_neighbours = 180

====
